---------------------------- MODULE Spec2Model ----------------------------
(***************************************************************************)
(* Model of sysapi (src/main.rs): one HTTP route, GET /stats, whose        *)
(* handler get_server_stats samples two process-wide samplers, SYSTEM and  *)
(* DISKS, each behind a std::sync::Mutex, and formats the figures.         *)
(*                                                                         *)
(* A u64 is kept as its seven base-1024 digits, least significant first    *)
(* (the top digit holds bits 60..63), because the thresholds of            *)
(* format_bytes and the sums of disk sizes exceed the integers TLC         *)
(* computes with.  f64 and f32 values are kept exactly, as the dyadic      *)
(* rationals they are, and every conversion rounds as IEEE 754 does.       *)
(***************************************************************************)
EXTENDS Integers, Sequences, FiniteSets, TLC

\* Rust passes arguments by value: F is applied to the values of its
\* arguments, each computed once.
ByValue1(F(_), a) == CHOOSE v \in {F(x) : x \in {a}} : TRUE

ByValue2(F(_, _), a, b) == CHOOSE v \in {F(x, y) : x \in {a}, y \in {b}} : TRUE

ByValue3(F(_, _, _), a, b, c) ==
    CHOOSE v \in {F(x, y, z) : x \in {a}, y \in {b}, z \in {c}} : TRUE

\* ------------------------------------------------------------------------
\* u64 arithmetic
\* ------------------------------------------------------------------------

\* The width of u64.
U64Bits == 64

\* One digit of the representation holds 10 bits: 1024 = 2^10.
LimbBits == 10

Radix == 2 ^ LimbBits

NumLimbs == (U64Bits + LimbBits - 1) \div LimbBits

Limbs == 1 .. NumLimbs

\* The top digit of a u64 holds the bits that are left: 64 - 60 = 4.
TopRadix == 2 ^ (U64Bits - LimbBits * (NumLimbs - 1))

Limb(d, i) == IF i \in Limbs THEN d[i] ELSE 0

\* The u64 of a small integer (n < 2^31).
U64(n_) ==
    ByValue1(LAMBDA n :
        [i \in Limbs |->
            IF i <= 3 THEN (n \div (Radix ^ (i - 1))) % Radix
            ELSE IF i = 4 THEN n \div (Radix ^ 3)
            ELSE 0],
        n_)

\* 2^k as digits, 0 <= k <= 64 (2^64 itself has top digit 16: it is the one
\* value above u64 an f64 rounding can produce).
Pow2(k_) ==
    ByValue1(LAMBDA k :
        [i \in Limbs |->
            IF k = U64Bits /\ i = NumLimbs THEN TopRadix
            ELSE IF i = (k \div LimbBits) + 1 THEN 2 ^ (k % LimbBits)
            ELSE 0],
        k_)

\* The integer a digit string of less than 2^31 stands for.
ToInt(d_) ==
    ByValue1(LAMBDA d :
        d[1] + Radix * d[2] + Radix * Radix * d[3]
             + (IF d[4] > 0 THEN Radix * Radix * Radix * d[4] ELSE 0),
        d_)

IsZero(d_) == ByValue1(LAMBDA d : \A i \in Limbs : d[i] = 0, d_)

\* a < b, compared from the most significant digit down.
Less(a_, b_) ==
    ByValue2(LAMBDA a, b :
        \E i \in Limbs :
            /\ a[i] < b[i]
            /\ \A j \in Limbs : j > i => a[j] = b[j],
        a_, b_)

GreaterEq(a, b) == ~Less(a, b)

RECURSIVE CarryInto(_, _, _)
\* The carry of a + b into digit i (a and b are values).
CarryInto(a, b, i) ==
    IF i = 1 THEN 0
    ELSE (a[i - 1] + b[i - 1] + CarryInto(a, b, i - 1)) \div Radix

\* a + b with the top digit left unreduced (so the sum is exact).
AddWide(a_, b_) ==
    ByValue2(LAMBDA a, b :
        [i \in Limbs |->
            LET s == a[i] + b[i] + CarryInto(a, b, i)
            IN  IF i = NumLimbs THEN s ELSE s % Radix],
        a_, b_)

AddOverflows(a, b) == AddWide(a, b)[NumLimbs] >= TopRadix

\* a + b modulo 2^64.
WrappingAdd(a, b) ==
    ByValue1(LAMBDA sum :
        [i \in Limbs |-> IF i = NumLimbs THEN sum[i] % TopRadix ELSE sum[i]],
        AddWide(a, b))

RECURSIVE BorrowFrom(_, _, _)
\* The borrow of a - b taken from digit i (a and b are values).
BorrowFrom(a, b, i) ==
    IF i = 1 THEN 0
    ELSE IF a[i - 1] - b[i - 1] - BorrowFrom(a, b, i - 1) < 0 THEN 1 ELSE 0

\* a - b modulo 2^64.
WrappingSub(a_, b_) ==
    ByValue2(LAMBDA a, b :
        [i \in Limbs |->
            LET s == a[i] - b[i] - BorrowFrom(a, b, i)
            IN  IF i = NumLimbs THEN s % TopRadix ELSE s % Radix],
        a_, b_)

SubOverflows(a, b) == Less(a, b)

RECURSIVE MulCarry(_, _, _)
\* The carry of d * c into digit i (d and c are values).
MulCarry(d, c, i) ==
    IF i = 1 THEN 0
    ELSE (d[i - 1] * c + MulCarry(d, c, i - 1)) \div Radix

\* d * c for a small integer c, the top digit left unreduced.
MulInt(d_, c_) ==
    ByValue2(LAMBDA d, c :
        [i \in Limbs |->
            LET s == d[i] * c + MulCarry(d, c, i)
            IN  IF i = NumLimbs THEN s ELSE s % Radix],
        d_, c_)

\* The number of significant bits of a small integer.
IntBitLen(x_) ==
    ByValue1(LAMBDA x :
        CHOOSE k \in 0 .. 31 : (k = 0 \/ 2 ^ (k - 1) <= x) /\ (k = 31 \/ x < 2 ^ k),
        x_)

BitLen(d_) ==
    ByValue1(LAMBDA d :
        IF IsZero(d) THEN 0
        ELSE LET t == CHOOSE i \in Limbs : d[i] # 0 /\ \A j \in Limbs : j > i => d[j] = 0
             IN  LimbBits * (t - 1) + IntBitLen(d[t]),
        d_)

\* Bit k of d.
Bit(d_, k_) ==
    ByValue2(LAMBDA d, k :
        (Limb(d, (k \div LimbBits) + 1) \div (2 ^ (k % LimbBits))) % 2,
        d_, k_)

\* The bits of d below bit n are all zero.
LowZero(d_, n_) ==
    ByValue2(LAMBDA d, n :
        \A i \in Limbs :
            /\ i <= n \div LimbBits => d[i] = 0
            /\ i = (n \div LimbBits) + 1 => d[i] % (2 ^ (n % LimbBits)) = 0,
        d_, n_)

\* d with its bits below bit n cleared.
ClearLow(d_, n_) ==
    ByValue2(LAMBDA d, n :
        [i \in Limbs |->
            IF i <= n \div LimbBits THEN 0
            ELSE IF i = (n \div LimbBits) + 1 THEN d[i] - (d[i] % (2 ^ (n % LimbBits)))
            ELSE d[i]],
        d_, n_)

\* d shifted right by n bits.
ShiftRight(d_, n_) ==
    ByValue2(LAMBDA d, n :
        [i \in Limbs |->
            LET q == (n \div LimbBits) + i
                r == n % LimbBits
            IN  (Limb(d, q) \div (2 ^ r)) + (Limb(d, q + 1) % (2 ^ r)) * (2 ^ (LimbBits - r))],
        d_, n_)

\* d rounded to p significant bits, ties to even: an integer-to-float cast.
RoundToBits(d_, p) ==
    ByValue2(LAMBDA d, n :
        IF n <= 0 THEN d
        ELSE IF Bit(d, n - 1) = 1 /\ (~LowZero(d, n - 1) \/ Bit(d, n) = 1)
        THEN AddWide(ClearLow(d, n), Pow2(n))
        ELSE ClearLow(d, n),
        d_, BitLen(d_) - p)

\* ------------------------------------------------------------------------
\* format_bytes
\* ------------------------------------------------------------------------

KB == U64(1024)
MB == MulInt(KB, 1024)
GB == MulInt(MB, 1024)
TB == MulInt(GB, 1024)

\* The precision of f64.
F64Mantissa == 53

\* `b as f64`: the nearest f64, kept as the integer it is.
U64AsF64(b) == RoundToBits(b, F64Mantissa)

Pad2(n_) == ByValue1(LAMBDA n : IF n < 10 THEN "0" \o ToString(n) ELSE ToString(n), n_)

\* h hundredths with two decimals.
Fixed2(h_) == ByValue1(LAMBDA h : ToString(h \div 100) \o "." \o Pad2(h % 100), h_)

\* format!("{:.2}", x / t) for the f64 x (an integer below 2^64 + 1) and a
\* threshold t = 2^(10k): the division is exact in f64, and the quotient is
\* printed with two decimals, ties to even.
FormatQuotient2(x_, t) ==
    ByValue3(LAMBDA x, sh, p :
        LET whole == ToInt(ShiftRight(x, sh))
            c == ToInt(ShiftRight(p, sh))
            up == /\ Bit(p, sh - 1) = 1
                  /\ (~LowZero(p, sh - 1) \/ c % 2 = 1)
        IN  Fixed2(whole * 100 + c + (IF up THEN 1 ELSE 0)),
        x_,
        BitLen(t) - 1,
        MulInt([i \in Limbs |-> IF i <= (BitLen(t) - 1) \div LimbBits THEN x_[i] ELSE 0], 100))

\* format_bytes with strict comparisons: a value equal to a threshold falls
\* to the smaller unit.
format_bytes_strict(bytes) ==
    ByValue1(LAMBDA b :
        IF Less(TB, b) THEN FormatQuotient2(U64AsF64(b), TB) \o " TB"
        ELSE IF Less(GB, b) THEN FormatQuotient2(U64AsF64(b), GB) \o " GB"
        ELSE IF Less(MB, b) THEN FormatQuotient2(U64AsF64(b), MB) \o " MB"
        ELSE IF Less(KB, b) THEN FormatQuotient2(U64AsF64(b), KB) \o " KB"
        ELSE ToString(ToInt(b)) \o " B",
        bytes)

format_bytes(bytes) ==
    ByValue1(LAMBDA b :
        IF GreaterEq(b, TB) THEN FormatQuotient2(U64AsF64(b), TB) \o " TB"
        ELSE IF GreaterEq(b, GB) THEN FormatQuotient2(U64AsF64(b), GB) \o " GB"
        ELSE IF GreaterEq(b, MB) THEN FormatQuotient2(U64AsF64(b), MB) \o " MB"
        ELSE IF GreaterEq(b, KB) THEN FormatQuotient2(U64AsF64(b), KB) \o " KB"
        ELSE ToString(ToInt(b)) \o " B",
        bytes)

\* ------------------------------------------------------------------------
\* f32 arithmetic
\* ------------------------------------------------------------------------

\* The precision of f32.
F32Mantissa == 24

\* An f32 is NaN, an infinity, or the finite value (-1)^s * m * 2^e, with
\* m = 0 or 2^23 <= m < 2^24.  (No value of this program is subnormal or
\* overflows: its magnitudes lie between 2^-64 and 2^71.)
F32NaN == [k |-> "nan", s |-> 0, m |-> 0, e |-> 0]

F32Inf(s) == [k |-> "inf", s |-> s, m |-> 0, e |-> 0]

F32Zero(s) == [k |-> "fin", s |-> s, m |-> 0, e |-> 0]

\* The f32 nearest to (-1)^s * (M + f) * 2^E, ties to even, where 0 <= f < 1
\* and sticky says whether f > 0.  When sticky holds, M has more than 24 bits.
RoundF32(s, M_, E_, sticky) ==
    ByValue3(LAMBDA M, E, len :
        IF M = 0 THEN F32Zero(s)
        ELSE IF len <= F32Mantissa
        THEN [k |-> "fin", s |-> s,
              m |-> M * (2 ^ (F32Mantissa - len)),
              e |-> E - (F32Mantissa - len)]
        ELSE LET n == len - F32Mantissa
                 q == M \div (2 ^ n)
                 r == M % (2 ^ n)
                 half == 2 ^ (n - 1)
                 up == r > half \/ (r = half /\ (sticky \/ q % 2 = 1))
                 m1 == IF up THEN q + 1 ELSE q
             IN  IF m1 = 2 ^ F32Mantissa
                 THEN [k |-> "fin", s |-> s, m |-> 2 ^ (F32Mantissa - 1), e |-> E + n + 1]
                 ELSE [k |-> "fin", s |-> s, m |-> m1, e |-> E + n],
        M_, E_, IntBitLen(M_))

\* `b as f32` for a u64 b.
U64AsF32(b_) ==
    ByValue2(LAMBDA b, len :
        IF len <= 30 THEN RoundF32(0, ToInt(b), 0, FALSE)
        ELSE RoundF32(0, ToInt(ShiftRight(b, len - 30)), len - 30, ~LowZero(b, len - 30)),
        b_, BitLen(b_))

\* The f32 of a small non-negative integer literal.
F32Lit(n) == RoundF32(0, n, 0, FALSE)

\* The quotient bits a division step yields at once: rem * 2^7 < 2^31.
DivChunk == 7

\* One step of the long division by den (rem < den < 2^24): DivChunk more bits
\* of the quotient, <<quotient, remainder>>.
DivStep(qr_, den_) ==
    ByValue2(LAMBDA qr, den :
        << qr[1] * (2 ^ DivChunk) + (qr[2] * (2 ^ DivChunk)) \div den,
           (qr[2] * (2 ^ DivChunk)) % den >>,
        qr_, den_)

\* Four steps of it.
LongDiv(q, rem, den) == DivStep(DivStep(DivStep(DivStep(<<q, rem>>, den), den), den), den)

\* F32Div with a guard on a zero divisor, which yields 0.0 instead of
\* dividing (the "0.00%" guard the design notes suggest).
F32DivGuarded(a_, b_) ==
    ByValue2(LAMBDA a, b :
        IF a.k = "nan" \/ b.k = "nan" THEN F32NaN
        ELSE IF a.k = "inf" THEN (IF b.k = "inf" THEN F32NaN ELSE F32Inf((a.s + b.s) % 2))
        ELSE IF b.k = "inf" THEN F32Zero((a.s + b.s) % 2)
        ELSE IF b.m = 0 \/ a.m = 0 THEN F32Zero(0)
        ELSE ByValue1(LAMBDA qr :
                 RoundF32((a.s + b.s) % 2, qr[1], a.e - b.e - 4 * DivChunk, qr[2] # 0),
                 LongDiv(IF a.m >= b.m THEN 1 ELSE 0,
                         IF a.m >= b.m THEN a.m - b.m ELSE a.m, b.m)),
        a_, b_)

\* a / b in f32.
F32Div(a_, b_) ==
    ByValue2(LAMBDA a, b :
        IF a.k = "nan" \/ b.k = "nan" THEN F32NaN
        ELSE IF a.k = "inf" THEN (IF b.k = "inf" THEN F32NaN ELSE F32Inf((a.s + b.s) % 2))
        ELSE IF b.k = "inf" THEN F32Zero((a.s + b.s) % 2)
        ELSE IF b.m = 0 THEN (IF a.m = 0 THEN F32NaN ELSE F32Inf((a.s + b.s) % 2))
        ELSE IF a.m = 0 THEN F32Zero((a.s + b.s) % 2)
        ELSE ByValue1(LAMBDA qr :
                 RoundF32((a.s + b.s) % 2, qr[1], a.e - b.e - 4 * DivChunk, qr[2] # 0),
                 LongDiv(IF a.m >= b.m THEN 1 ELSE 0,
                         IF a.m >= b.m THEN a.m - b.m ELSE a.m, b.m)),
        a_, b_)

\* The number of trailing zero bits of m > 0.
TrailingZeros(m_) ==
    ByValue1(LAMBDA m :
        CHOOSE z \in 0 .. 30 : m % (2 ^ z) = 0 /\ m % (2 ^ (z + 1)) # 0,
        m_)

\* a * b in f32, for a multiplier b whose significand has few bits (100.0).
F32Mul(a_, b_) ==
    ByValue2(LAMBDA a, b :
        IF a.k = "nan" \/ b.k = "nan" THEN F32NaN
        ELSE IF a.k = "inf" \/ b.k = "inf"
        THEN (IF (a.k = "fin" /\ a.m = 0) \/ (b.k = "fin" /\ b.m = 0) THEN F32NaN
              ELSE F32Inf((a.s + b.s) % 2))
        ELSE IF a.m = 0 \/ b.m = 0 THEN F32Zero((a.s + b.s) % 2)
        ELSE ByValue1(LAMBDA z :
                 RoundF32((a.s + b.s) % 2, a.m * (b.m \div (2 ^ z)), a.e + b.e + z, FALSE),
                 TrailingZeros(b.m)),
        a_, b_)

\* y's significand aligned to x's exponent (x.e >= y.e) with three extra
\* bits, the last one sticky.
Aligned(x_, y_) ==
    ByValue2(LAMBDA d, full :
        IF d > F32Mantissa + 3 THEN 1
        ELSE (full \div (2 ^ d))
                 + (IF full % (2 ^ d) # 0 /\ (full \div (2 ^ d)) % 2 = 0 THEN 1 ELSE 0),
        x_.e - y_.e, y_.m * 8)

\* x - y for finite nonzero x, y of the same sign, |x| >= |y|; s is the sign
\* of the difference.
SubMagnitudes(s, x_, y_) ==
    ByValue2(LAMBDA x, y :
        IF x.m * 8 = Aligned(x, y) THEN F32Zero(0)
        ELSE RoundF32(s, x.m * 8 - Aligned(x, y), x.e - 3, FALSE),
        x_, y_)

\* x + y for finite nonzero magnitudes, |x| >= |y|, with sign s.
AddMagnitudes(s, x_, y_) ==
    ByValue2(LAMBDA x, y : RoundF32(s, x.m * 8 + Aligned(x, y), x.e - 3, FALSE), x_, y_)

\* |x| >= |y| for finite nonzero normalised x, y.
MagGreaterEq(x, y) == x.e > y.e \/ (x.e = y.e /\ x.m >= y.m)

\* a - b in f32.
F32Sub(a_, b_) ==
    ByValue2(LAMBDA a, b :
        IF a.k = "nan" \/ b.k = "nan" THEN F32NaN
        ELSE IF a.k = "inf" THEN (IF b.k = "inf" /\ b.s = a.s THEN F32NaN ELSE a)
        ELSE IF b.k = "inf" THEN F32Inf(1 - b.s)
        ELSE IF b.m = 0
        THEN (IF a.m = 0 THEN F32Zero(IF a.s = 1 /\ b.s = 0 THEN 1 ELSE 0) ELSE a)
        ELSE IF a.m = 0 THEN [b EXCEPT !.s = 1 - b.s]
        ELSE IF a.s # b.s
        THEN (IF MagGreaterEq(a, b) THEN AddMagnitudes(a.s, a, b)
              ELSE AddMagnitudes(a.s, b, a))
        ELSE IF MagGreaterEq(a, b) THEN SubMagnitudes(a.s, a, b)
        ELSE SubMagnitudes(1 - a.s, b, a),
        a_, b_)

\* The hundredths nearest to c * 2^e, ties to even (c < 2^31).
ScaledHundredths(c_, e_) ==
    ByValue2(LAMBDA c, e :
        IF e >= 0 THEN c * (2 ^ e)
        ELSE IF 0 - e > 31 THEN 0
        ELSE IF 0 - e = 31 THEN (IF c > 2 ^ 30 THEN 1 ELSE 0)
        ELSE LET q == c \div (2 ^ (0 - e))
                 r == c % (2 ^ (0 - e))
                 half == 2 ^ (0 - e - 1)
             IN  IF r > half \/ (r = half /\ q % 2 = 1) THEN q + 1 ELSE q,
        c_, e_)

\* format!("{:.2}", v) for an f32 v: the exact value with two decimals, ties
\* to even; the sign is printed also when the digits round to zero.
FormatF32Fixed2(value) ==
    ByValue1(LAMBDA v :
        IF v.k = "nan" THEN "NaN"
        ELSE IF v.k = "inf" THEN (IF v.s = 1 THEN "-inf" ELSE "inf")
        ELSE (IF v.s = 1 THEN "-" ELSE "") \o Fixed2(ScaledHundredths(v.m * 100, v.e)),
        value)

format_percentage(value) == FormatF32Fixed2(value) \o "%"

\* ------------------------------------------------------------------------
\* The samplers' values
\* ------------------------------------------------------------------------

\* The number of concurrent GET /stats requests.
NumRequests == 2

\* The longest disk list a refresh reports.
MaxDisks == 2

Requests == 1 .. NumRequests

\* global_cpu_usage(): 0.0 and 33.333 (the f32 nearest to it).
CpuSamples == {F32Zero(0), [k |-> "fin", s |-> 0, m |-> 8738046, e |-> 0 - 18]}

\* used_memory() and total_memory(): a host that reports no memory at all,
\* and one with 6 GiB of 16 GiB used.
MemorySamples ==
    { [used_memory |-> U64(0), total_memory |-> U64(0)],
      [used_memory |-> MulInt(GB, 6), total_memory |-> MulInt(GB, 16)] }

SystemSamples ==
    { [cpu |-> c, used_memory |-> m.used_memory, total_memory |-> m.total_memory] :
        c \in CpuSamples, m \in MemorySamples }

\* One disk: a 1 TiB disk with 256 GiB free, a file system that reports more
\* available than total space, and one that reports 2^63 bytes of both.
DiskChoices ==
    << [total_space |-> TB, available_space |-> MulInt(GB, 256)],
       [total_space |-> U64(1024), available_space |-> U64(2048)],
       [total_space |-> Pow2(63), available_space |-> Pow2(63)] >>

\* The disk lists of at most MaxDisks disks, up to the order of the disks
\* (the handler only sums over a list).
DiskLists ==
    { [i \in 1 .. Len(k) |-> DiskChoices[k[i]]] :
        k \in { c \in UNION { [1 .. n -> 1 .. Len(DiskChoices)] : n \in 0 .. MaxDisks } :
                    \A i \in 1 .. Len(c) - 1 : c[i] <= c[i + 1] } }

Front(s) == SubSeq(s, 1, Len(s) - 1)

RECURSIVE SumWrapping(_)
\* iter().sum::<u64>() without overflow checks: the sum modulo 2^64.
SumWrapping(s_) ==
    ByValue1(LAMBDA s :
        IF s = <<>> THEN U64(0)
        ELSE WrappingAdd(SumWrapping(Front(s)), s[Len(s)]),
        s_)

RECURSIVE SumOverflows(_)
\* Some addition of iter().sum::<u64>() overflows.
SumOverflows(s_) ==
    ByValue1(LAMBDA s :
        /\ s # <<>>
        /\ (SumOverflows(Front(s)) \/ AddOverflows(SumWrapping(Front(s)), s[Len(s)])),
        s_)

TotalSpaces(list) == [i \in 1 .. Len(list) |-> list[i].total_space]

AvailableSpaces(list) == [i \in 1 .. Len(list) |-> list[i].available_space]

\* ------------------------------------------------------------------------
\* State
\* ------------------------------------------------------------------------

VARIABLES
    server,          \* main: "starting", "listening" or "exited"
    overflowChecks,  \* the build: TRUE when integer overflow panics (debug)
    systemMutex,     \* SYSTEM: [locked, poisoned]
    systemData,      \* the System sampler's cached values
    disksMutex,      \* DISKS: [locked, poisoned]
    disksData,       \* the Disks sampler's cached list
    lastRefresh,     \* per sampler, the request that refreshed it last (0: none)
    pc,              \* per request, the statement of get_server_stats it is at
    guards,          \* per request, the MutexGuards it owns
    locals,          \* per request, the local variables of get_server_stats
    response,        \* per request: "pending", "200" or "closed"
    panicked,        \* per request: "none", "poisoned" or "overflow"
    bytes,           \* the argument of a lone call of format_bytes
    formatted        \* its result

vars == <<server, overflowChecks, systemMutex, systemData, disksMutex, disksData,
          lastRefresh, pc, guards, locals, response, panicked, bytes, formatted>>

fmtVars == <<bytes, formatted>>

NoUsageInfo == [used |-> "", total |-> "", percentage |-> ""]

NoLocals ==
    [cpu_usage |-> "", total_memory |-> U64(0), used_memory |-> U64(0),
     ram |-> NoUsageInfo,
     total_disk_space |-> U64(0), available_disk_space |-> U64(0),
     storage |-> NoUsageInfo]

\* lazy_static: both samplers are built with a first sample, both mutexes are
\* free and not poisoned; no request has arrived.
Init ==
    /\ server = "starting"
    /\ overflowChecks \in BOOLEAN
    /\ systemMutex = [locked |-> FALSE, poisoned |-> FALSE]
    /\ systemData \in SystemSamples
    /\ disksMutex = [locked |-> FALSE, poisoned |-> FALSE]
    /\ disksData \in DiskLists
    /\ lastRefresh = [l \in {"SYSTEM", "DISKS"} |-> 0]
    /\ pc = [r \in Requests |-> "idle"]
    /\ guards = [r \in Requests |-> {}]
    /\ locals = [r \in Requests |-> NoLocals]
    /\ response = [r \in Requests |-> "pending"]
    /\ panicked = [r \in Requests |-> "none"]
    /\ bytes = U64(0)
    /\ formatted = ""

\* ------------------------------------------------------------------------
\* main
\* ------------------------------------------------------------------------

\* Server::bind(addr).serve(..) binds and serves.
BindOk ==
    /\ server = "starting"
    /\ server' = "listening"
    /\ UNCHANGED <<overflowChecks, systemMutex, systemData, disksMutex, disksData,
                   lastRefresh, pc, guards, locals, response, panicked, fmtVars>>

\* ... or fails: the error is printed and main returns.
BindFail ==
    /\ server = "starting"
    /\ server' = "exited"
    /\ UNCHANGED <<overflowChecks, systemMutex, systemData, disksMutex, disksData,
                   lastRefresh, pc, guards, locals, response, panicked, fmtVars>>

\* A GET /stats request is routed to get_server_stats on its own task.
Arrive(r) ==
    /\ server = "listening"
    /\ pc[r] = "idle"
    /\ pc' = [pc EXCEPT ![r] = "lock_system"]
    /\ UNCHANGED <<server, overflowChecks, systemMutex, systemData, disksMutex,
                   disksData, lastRefresh, guards, locals, response, panicked, fmtVars>>

\* ------------------------------------------------------------------------
\* get_server_stats, statement by statement
\* ------------------------------------------------------------------------

\* LockSystem without mutual exclusion: the lock is taken even while held.
LockSystemNoWait(r) ==
    /\ pc[r] = "lock_system"
    /\ IF systemMutex.poisoned
       THEN /\ pc' = [pc EXCEPT ![r] = "done"]
            /\ panicked' = [panicked EXCEPT ![r] = "poisoned"]
            /\ response' = [response EXCEPT ![r] = "closed"]
            /\ UNCHANGED <<systemMutex, guards>>
       ELSE /\ systemMutex' = [systemMutex EXCEPT !.locked = TRUE]
            /\ guards' = [guards EXCEPT ![r] = @ \cup {"SYSTEM"}]
            /\ pc' = [pc EXCEPT ![r] = "refresh_all"]
            /\ UNCHANGED <<panicked, response>>
    /\ UNCHANGED <<server, overflowChecks, systemData, disksMutex, disksData,
                   lastRefresh, locals, fmtVars>>

\* LockSystem that recovers a poisoned mutex (into_inner) instead of
\* unwrapping the error.
LockSystemRecover(r) ==
    /\ pc[r] = "lock_system"
    /\ ~systemMutex.locked
    /\ systemMutex' = [systemMutex EXCEPT !.locked = TRUE]
    /\ guards' = [guards EXCEPT ![r] = @ \cup {"SYSTEM"}]
    /\ pc' = [pc EXCEPT ![r] = "refresh_all"]
    /\ UNCHANGED <<server, overflowChecks, systemData, disksMutex, disksData,
                   lastRefresh, locals, response, panicked, fmtVars>>

\* let mut system = SYSTEM.lock().unwrap();
\* lock() blocks while the mutex is held.  On a poisoned mutex it returns Err,
\* unwrap() panics, and the guard inside the error is dropped at once; the
\* task ends and its connection is closed without a response.
LockSystem(r) ==
    /\ pc[r] = "lock_system"
    /\ ~systemMutex.locked
    /\ IF systemMutex.poisoned
       THEN /\ pc' = [pc EXCEPT ![r] = "done"]
            /\ panicked' = [panicked EXCEPT ![r] = "poisoned"]
            /\ response' = [response EXCEPT ![r] = "closed"]
            /\ UNCHANGED <<systemMutex, guards>>
       ELSE /\ systemMutex' = [systemMutex EXCEPT !.locked = TRUE]
            /\ guards' = [guards EXCEPT ![r] = @ \cup {"SYSTEM"}]
            /\ pc' = [pc EXCEPT ![r] = "refresh_all"]
            /\ UNCHANGED <<panicked, response>>
    /\ UNCHANGED <<server, overflowChecks, systemData, disksMutex, disksData,
                   lastRefresh, locals, fmtVars>>

\* system.refresh_all();
RefreshAll(r) ==
    /\ pc[r] = "refresh_all"
    /\ systemData' \in SystemSamples
    /\ lastRefresh' = [lastRefresh EXCEPT !["SYSTEM"] = r]
    /\ pc' = [pc EXCEPT ![r] = "read_cpu"]
    /\ UNCHANGED <<server, overflowChecks, systemMutex, disksMutex, disksData,
                   guards, locals, response, panicked, fmtVars>>

\* let cpu_usage = format_percentage(system.global_cpu_usage());
ReadCpu(r) ==
    /\ pc[r] = "read_cpu"
    /\ pc' = [pc EXCEPT ![r] = "read_total_memory"]
    /\ locals' = [locals EXCEPT ![r].cpu_usage = format_percentage(systemData.cpu)]
    /\ UNCHANGED <<server, overflowChecks, systemMutex, systemData, disksMutex,
                   disksData, lastRefresh, guards, response, panicked, fmtVars>>

\* let total_memory = system.total_memory();
ReadTotalMemory(r) ==
    /\ pc[r] = "read_total_memory"
    /\ locals' = [locals EXCEPT ![r].total_memory = systemData.total_memory]
    /\ pc' = [pc EXCEPT ![r] = "read_used_memory"]
    /\ UNCHANGED <<server, overflowChecks, systemMutex, systemData, disksMutex,
                   disksData, lastRefresh, guards, response, panicked, fmtVars>>

\* (used_memory as f32 / total_memory as f32) * 100.0
RamPercentage(used_memory, total_memory) ==
    F32Mul(F32Div(U64AsF32(used_memory), U64AsF32(total_memory)), F32Lit(100))

\* let used_memory = system.used_memory(); let ram_percentage = ..;
\* let ram = UsageInfo { .. };
ReadUsedMemory(r) ==
    /\ pc[r] = "read_used_memory"
    /\ pc' = [pc EXCEPT ![r] = "lock_disks"]
    /\ LET used_memory == systemData.used_memory
           total_memory == locals[r].total_memory
       IN  locals' = [locals EXCEPT
               ![r].used_memory = used_memory,
               ![r].ram = [used |-> format_bytes(used_memory),
                           total |-> format_bytes(total_memory),
                           percentage |-> format_percentage(
                               RamPercentage(used_memory, total_memory))]]
    /\ UNCHANGED <<server, overflowChecks, systemMutex, systemData, disksMutex,
                   disksData, lastRefresh, guards, response, panicked, fmtVars>>

\* LockDisks that drops the system guard before it locks DISKS.
LockDisksAfterRelease(r) ==
    /\ pc[r] = "lock_disks"
    /\ ~disksMutex.locked
    /\ ~disksMutex.poisoned
    /\ systemMutex' = [systemMutex EXCEPT !.locked = FALSE]
    /\ disksMutex' = [disksMutex EXCEPT !.locked = TRUE]
    /\ guards' = [guards EXCEPT ![r] = {"DISKS"}]
    /\ pc' = [pc EXCEPT ![r] = "refresh_list"]
    /\ UNCHANGED <<server, overflowChecks, systemData, disksData, lastRefresh,
                   locals, response, panicked, fmtVars>>

\* let mut disks = DISKS.lock().unwrap();   (system is still held)
LockDisks(r) ==
    /\ pc[r] = "lock_disks"
    /\ ~disksMutex.locked
    /\ IF disksMutex.poisoned
       THEN /\ pc' = [pc EXCEPT ![r] = "unwind"]
            /\ panicked' = [panicked EXCEPT ![r] = "poisoned"]
            /\ UNCHANGED <<disksMutex, guards>>
       ELSE /\ disksMutex' = [disksMutex EXCEPT !.locked = TRUE]
            /\ guards' = [guards EXCEPT ![r] = @ \cup {"DISKS"}]
            /\ pc' = [pc EXCEPT ![r] = "refresh_list"]
            /\ UNCHANGED panicked
    /\ UNCHANGED <<server, overflowChecks, systemMutex, systemData, disksData,
                   lastRefresh, locals, response, fmtVars>>

\* disks.refresh_list();
RefreshList(r) ==
    /\ pc[r] = "refresh_list"
    /\ disksData' \in DiskLists
    /\ lastRefresh' = [lastRefresh EXCEPT !["DISKS"] = r]
    /\ pc' = [pc EXCEPT ![r] = "sum_total"]
    /\ UNCHANGED <<server, overflowChecks, systemMutex, systemData, disksMutex,
                   guards, locals, response, panicked, fmtVars>>

\* let total_disk_space = disks.iter().map(|disk| disk.total_space()).sum::<u64>();
\* An overflowing sum panics when the build checks overflow and wraps otherwise.
SumTotal(r) ==
    /\ pc[r] = "sum_total"
    /\ IF overflowChecks /\ SumOverflows(TotalSpaces(disksData))
       THEN /\ pc' = [pc EXCEPT ![r] = "unwind"]
            /\ panicked' = [panicked EXCEPT ![r] = "overflow"]
            /\ UNCHANGED locals
       ELSE /\ pc' = [pc EXCEPT ![r] = "sum_available"]
            /\ locals' = [locals EXCEPT
                ![r].total_disk_space = SumWrapping(TotalSpaces(disksData))]
            /\ UNCHANGED panicked
    /\ UNCHANGED <<server, overflowChecks, systemMutex, systemData, disksMutex,
                   disksData, lastRefresh, guards, response, fmtVars>>

\* let available_disk_space = disks.iter().map(|disk| disk.available_space()).sum::<u64>();
SumAvailable(r) ==
    /\ pc[r] = "sum_available"
    /\ IF overflowChecks /\ SumOverflows(AvailableSpaces(disksData))
       THEN /\ pc' = [pc EXCEPT ![r] = "unwind"]
            /\ panicked' = [panicked EXCEPT ![r] = "overflow"]
            /\ UNCHANGED locals
       ELSE /\ pc' = [pc EXCEPT ![r] = "storage"]
            /\ locals' = [locals EXCEPT
                ![r].available_disk_space = SumWrapping(AvailableSpaces(disksData))]
            /\ UNCHANGED panicked
    /\ UNCHANGED <<server, overflowChecks, systemMutex, systemData, disksMutex,
                   disksData, lastRefresh, guards, response, fmtVars>>

\* 100.0 - (available_disk_space as f32 / total_disk_space as f32) * 100.0
UsedPercentage(available_disk_space, total_disk_space) ==
    F32Sub(F32Lit(100),
           F32Mul(F32Div(U64AsF32(available_disk_space), U64AsF32(total_disk_space)),
                  F32Lit(100)))

\* let used_percentage = ..; let storage = UsageInfo { .. };
\* total_disk_space - available_disk_space panics on underflow when the build
\* checks overflow and wraps otherwise.
Storage(r) ==
    /\ pc[r] = "storage"
    /\ LET total_disk_space == locals[r].total_disk_space
           available_disk_space == locals[r].available_disk_space
       IN  IF overflowChecks /\ SubOverflows(total_disk_space, available_disk_space)
           THEN /\ pc' = [pc EXCEPT ![r] = "unwind"]
                /\ panicked' = [panicked EXCEPT ![r] = "overflow"]
                /\ UNCHANGED locals
           ELSE /\ pc' = [pc EXCEPT ![r] = "drop_disks"]
                /\ locals' = [locals EXCEPT
                    ![r].storage =
                        [used |-> format_bytes(
                             WrappingSub(total_disk_space, available_disk_space)),
                         total |-> format_bytes(total_disk_space),
                         percentage |-> format_percentage(
                             UsedPercentage(available_disk_space, total_disk_space))]]
                /\ UNCHANGED panicked
    /\ UNCHANGED <<server, overflowChecks, systemMutex, systemData, disksMutex,
                   disksData, lastRefresh, guards, response, fmtVars>>

\* Json(ServerStats { cpu_usage, ram, storage }) }   The locals are dropped in
\* reverse order of declaration: the disks guard first ...
DropDisks(r) ==
    /\ pc[r] = "drop_disks"
    /\ disksMutex' = [disksMutex EXCEPT !.locked = FALSE]
    /\ guards' = [guards EXCEPT ![r] = @ \ {"DISKS"}]
    /\ pc' = [pc EXCEPT ![r] = "drop_system"]
    /\ UNCHANGED <<server, overflowChecks, systemMutex, systemData, disksData,
                   lastRefresh, locals, response, panicked, fmtVars>>

\* DropSystem that leaks the guard (mem::forget): the mutex stays locked.
DropSystemLeak(r) ==
    /\ pc[r] = "drop_system"
    /\ guards' = [guards EXCEPT ![r] = @ \ {"SYSTEM"}]
    /\ response' = [response EXCEPT ![r] = "200"]
    /\ locals' = [locals EXCEPT ![r] = NoLocals]
    /\ pc' = [pc EXCEPT ![r] = "done"]
    /\ UNCHANGED <<server, overflowChecks, systemMutex, systemData, disksMutex,
                   disksData, lastRefresh, panicked, fmtVars>>

\* ... then the system guard; the handler returns and its Json<ServerStats>
\* is sent as a 200 response.
DropSystem(r) ==
    /\ pc[r] = "drop_system"
    /\ systemMutex' = [systemMutex EXCEPT !.locked = FALSE]
    /\ guards' = [guards EXCEPT ![r] = @ \ {"SYSTEM"}]
    /\ response' = [response EXCEPT ![r] = "200"]
    /\ locals' = [locals EXCEPT ![r] = NoLocals]
    /\ pc' = [pc EXCEPT ![r] = "done"]
    /\ UNCHANGED <<server, overflowChecks, systemData, disksMutex, disksData,
                   lastRefresh, panicked, fmtVars>>

\* A panic inside the handler unwinds: each guard still owned is dropped by a
\* panicking thread, which poisons its mutex and unlocks it (disks first);
\* the task ends and its connection is closed without a response.
Unwind(r) ==
    /\ pc[r] = "unwind"
    /\ IF "DISKS" \in guards[r]
       THEN /\ disksMutex' = [locked |-> FALSE, poisoned |-> TRUE]
            /\ guards' = [guards EXCEPT ![r] = @ \ {"DISKS"}]
            /\ UNCHANGED <<systemMutex, pc, response, locals>>
       ELSE /\ systemMutex' = [locked |-> FALSE, poisoned |-> TRUE]
            /\ guards' = [guards EXCEPT ![r] = @ \ {"SYSTEM"}]
            /\ response' = [response EXCEPT ![r] = "closed"]
            /\ locals' = [locals EXCEPT ![r] = NoLocals]
            /\ pc' = [pc EXCEPT ![r] = "done"]
            /\ UNCHANGED disksMutex
    /\ UNCHANGED <<server, overflowChecks, systemData, disksData, lastRefresh,
                   panicked, fmtVars>>

Handler(r) ==
    \/ LockSystem(r)
    \/ RefreshAll(r)
    \/ ReadCpu(r)
    \/ ReadTotalMemory(r)
    \/ ReadUsedMemory(r)
    \/ LockDisks(r)
    \/ RefreshList(r)
    \/ SumTotal(r)
    \/ SumAvailable(r)
    \/ Storage(r)
    \/ DropDisks(r)
    \/ DropSystem(r)
    \/ Unwind(r)

Next ==
    \/ BindOk
    \/ BindFail
    \/ \E r \in Requests : Arrive(r)
    \/ \E r \in Requests : Handler(r)

Spec == Init /\ [][Next]_vars

\* Every task that can take a step is run: the runtime polls each request's
\* task, and a thread blocked in lock() is woken when the mutex is free.
FairSpec == Spec /\ \A r \in Requests : WF_vars(Handler(r))

\* ------------------------------------------------------------------------
\* format_bytes on its own
\* ------------------------------------------------------------------------

\* The arguments tried: every power of two, its neighbours, every sum of two
\* powers of two (1536 = 1024 + 512 among them), 0 and u64::MAX.
FormatInputs ==
    {U64(0), WrappingSub(U64(0), U64(1))}
        \cup {Pow2(k) : k \in 0 .. U64Bits - 1}
        \cup {WrappingSub(Pow2(k), U64(1)) : k \in 0 .. U64Bits - 1}
        \cup {WrappingAdd(Pow2(k), Pow2(j)) : k \in 1 .. U64Bits - 1, j \in 0 .. U64Bits - 2}

InitFormat ==
    /\ bytes \in FormatInputs
    /\ formatted = ""
    /\ server = "exited"
    /\ overflowChecks = FALSE
    /\ systemMutex = [locked |-> FALSE, poisoned |-> FALSE]
    /\ systemData = [cpu |-> F32Zero(0), used_memory |-> U64(0), total_memory |-> U64(0)]
    /\ disksMutex = [locked |-> FALSE, poisoned |-> FALSE]
    /\ disksData = <<>>
    /\ lastRefresh = [l \in {"SYSTEM", "DISKS"} |-> 0]
    /\ pc = [r \in Requests |-> "idle"]
    /\ guards = [r \in Requests |-> {}]
    /\ locals = [r \in Requests |-> NoLocals]
    /\ response = [r \in Requests |-> "pending"]
    /\ panicked = [r \in Requests |-> "none"]

\* One call: formatted = format_bytes(bytes).
FormatBytes ==
    /\ formatted = ""
    /\ formatted' = format_bytes(bytes)
    /\ UNCHANGED <<server, overflowChecks, systemMutex, systemData, disksMutex,
                   disksData, lastRefresh, pc, guards, locals, response, panicked,
                   bytes>>

SpecFormat == InitFormat /\ [][FormatBytes]_vars

\* ------------------------------------------------------------------------
\* Properties
\* ------------------------------------------------------------------------

\* The statements at which a request's next step refreshes or reads a sampler,
\* and those between its refresh and its last read.
SystemAccess == {"refresh_all", "read_cpu", "read_total_memory", "read_used_memory"}

SystemReads == {"read_cpu", "read_total_memory", "read_used_memory"}

DisksAccess == {"refresh_list", "sum_total", "sum_available"}

DisksReads == {"sum_total", "sum_available"}

\* C1: for each sampler, no two requests refresh or read it at the same time,
\* every refresh and read is done by the owner of the sampler's guard, and
\* from a request's refresh to its last read the sampler was last refreshed
\* by that request (refresh + read is one uninterrupted unit).
C1_SamplersSerialized ==
    \A r \in Requests :
        /\ \A q \in Requests \ {r} : guards[r] \cap guards[q] = {}
        /\ pc[r] \in SystemAccess =>
               /\ "SYSTEM" \in guards[r]
               /\ \A q \in Requests \ {r} : pc[q] \notin SystemAccess
        /\ pc[r] \in SystemReads => lastRefresh["SYSTEM"] = r
        /\ pc[r] \in DisksAccess =>
               /\ "DISKS" \in guards[r]
               /\ \A q \in Requests \ {r} : pc[q] \notin DisksAccess
        /\ pc[r] \in DisksReads => lastRefresh["DISKS"] = r

\* A request reads the disk list it refreshed while another request waits
\* for SYSTEM.
C1_Witness ==
    \E r \in Requests : \E q \in Requests \ {r} :
        /\ pc[r] \in DisksReads
        /\ pc[q] = "lock_system"

\* C2: the two locks are independent, so that one request's disk read does
\* not exclude another request's memory read: a request that owns the DISKS
\* guard does not own the SYSTEM guard another request is waiting for.
C2_LocksIndependent ==
    \A r \in Requests : \A q \in Requests \ {r} :
        ("DISKS" \in guards[r] /\ pc[q] = "lock_system") => "SYSTEM" \notin guards[r]

NoPanic == \A r \in Requests : panicked[r] = "none"

Populated(u) == u.used # "" /\ u.total # "" /\ u.percentage # ""

\* A request that arrived has been answered 200.
Answered(r) == pc[r] # "idle" => response[r] = "200"

\* C3: under fair scheduling, in every run in which no request panics, every
\* request that arrived gets its locks, completes and is answered 200 (from
\* some point on no request that arrived is left waiting or running), and
\* the value a request returns has cpu_usage, ram and storage populated.  (A
\* panic is never undone, so a run without a panic is a run in which NoPanic
\* always holds.)
C3_AllComplete ==
    /\ <>[](NoPanic => \A r \in Requests : Answered(r))
    /\ [](\A r \in Requests :
              pc[r] = "drop_system" =>
                  /\ locals[r].cpu_usage # ""
                  /\ Populated(locals[r].ram)
                  /\ Populated(locals[r].storage))

\* Every request has been answered 200.
C3_Witness == \A r \in Requests : response[r] = "200"

\* C4: a request that finds a sampler lock poisoned is answered with a 500
\* response, and the server keeps listening.
C4_PoisonedIs500 ==
    \A r \in Requests :
        panicked[r] = "poisoned" => (response[r] = "500" /\ server = "listening")

\* C5: once the server listens, every request that ends has been answered 200.
C5_Always200 ==
    \A r \in Requests : pc[r] = "done" => response[r] = "200"

\* The largest unit whose threshold is <= b, as its index in B, KB, MB, GB, TB
\* (B for every b < 1024).
UnitIndex(b) ==
    IF Less(b, Pow2(LimbBits)) THEN 0
    ELSE CHOOSE i \in 1 .. 4 :
             /\ GreaterEq(b, Pow2(LimbBits * i))
             /\ \A j \in 1 .. 4 : GreaterEq(b, Pow2(LimbBits * j)) => j <= i

UnitCode(i) == <<"KB", "MB", "GB", "TB">>[i]

\* h hundredths printed with two decimals, a space and the unit code.
Rendered(h, i) == ToString(h \div 100) \o "." \o Pad2(h % 100) \o " " \o UnitCode(i)

\* The hundredths that b / 2^(10 i) may be printed as: the nearest ones to
\* the exact quotient (either one at a tie); for a b that no f64 holds
\* exactly, the hundredths on either side of the quotient.
Hundredths(b, i) ==
    LET p == MulInt(b, 100)
        sh == LimbBits * i
        q == ToInt(ShiftRight(p, sh))
        exact == LowZero(p, sh)
        above == Bit(p, sh - 1) = 1 /\ ~LowZero(p, sh - 1)
        below == Bit(p, sh - 1) = 0
    IN  IF exact THEN {q}
        ELSE IF BitLen(b) > F64Mantissa THEN {q, q + 1}
        ELSE IF above THEN {q + 1}
        ELSE IF below THEN {q}
        ELSE {q, q + 1}

\* C6: format_bytes(b) selects the largest of B, KB, MB, GB, TB whose binary
\* threshold is <= b: below 1024 it prints the integer and " B"; otherwise b
\* divided by the threshold with two decimals, a space and the unit; a value
\* equal to a threshold takes the larger unit, and values above 1024^5 stay
\* in TB.
C6_FormatBytes ==
    formatted # "" =>
        /\ IF UnitIndex(bytes) = 0
           THEN formatted = ToString(ToInt(bytes)) \o " B"
           ELSE \E h \in Hundredths(bytes, UnitIndex(bytes)) :
                    formatted = Rendered(h, UnitIndex(bytes))
        /\ bytes = U64(0) => formatted = "0 B"
        /\ bytes = U64(1023) => formatted = "1023 B"
        /\ bytes = U64(1024) => formatted = "1.00 KB"
        /\ bytes = U64(1536) => formatted = "1.50 KB"
        /\ bytes = Pow2(20) => formatted = "1.00 MB"
        /\ bytes = Pow2(40) => formatted = "1.00 TB"
        /\ bytes = Pow2(50) => formatted = "1024.00 TB"
        /\ bytes = Pow2(60) => formatted = "1048576.00 TB"

\* format_bytes has been applied to exactly 1024.
C6_Witness == bytes = U64(1024) /\ formatted = "1.00 KB"

AfterRam ==
    {"lock_disks", "refresh_list", "sum_total", "sum_available", "storage",
     "drop_disks", "drop_system"}

AvailableWithinTotal(list) ==
    \A i \in 1 .. Len(list) : ~Less(list[i].total_space, list[i].available_space)

\* C8: for a disk list whose every disk has available_space <= total_space,
\* the storage figures come from the list the request refreshed: neither sum
\* overflows, the subtraction does not underflow, total is the sum of
\* total_space, used is total minus the sum of available_space, and an empty
\* list gives "0 B" for both.
C8_StorageFromOneList ==
    \A r \in Requests :
        ("DISKS" \in guards[r] /\ AvailableWithinTotal(disksData)) =>
            /\ pc[r] # "unwind"
            /\ pc[r] = "drop_disks" =>
                   /\ ~SumOverflows(TotalSpaces(disksData))
                   /\ ~SumOverflows(AvailableSpaces(disksData))
                   /\ ~Less(SumWrapping(TotalSpaces(disksData)),
                            SumWrapping(AvailableSpaces(disksData)))
                   /\ locals[r].storage.total =
                          format_bytes(SumWrapping(TotalSpaces(disksData)))
                   /\ locals[r].storage.used =
                          format_bytes(WrappingSub(SumWrapping(TotalSpaces(disksData)),
                                                   SumWrapping(AvailableSpaces(disksData))))
                   /\ disksData = <<>> =>
                          (locals[r].storage.total = "0 B" /\ locals[r].storage.used = "0 B")

InDiskSection == {"refresh_list", "sum_total", "sum_available", "storage", "drop_disks"}

\* C9: SYSTEM is locked first and DISKS second, while SYSTEM is held, and
\* both are kept until the handler returns: the owner of the DISKS guard owns
\* the SYSTEM guard, a request that wants DISKS finds it free, and a request
\* that waits for SYSTEM owns nothing.
C9_LockNesting ==
    \A r \in Requests :
        /\ "DISKS" \in guards[r] => "SYSTEM" \in guards[r]
        /\ pc[r] = "lock_disks" => (guards[r] = {"SYSTEM"} /\ ~disksMutex.locked)
        /\ pc[r] = "lock_system" => guards[r] = {}
        /\ pc[r] \in SystemAccess => guards[r] = {"SYSTEM"}
        /\ pc[r] \in InDiskSection => guards[r] = {"SYSTEM", "DISKS"}
        /\ pc[r] = "drop_system" => guards[r] = {"SYSTEM"}

\* A request owns both guards while another one waits for SYSTEM.
C9_Witness ==
    \E r \in Requests : \E q \in Requests \ {r} :
        /\ guards[r] = {"SYSTEM", "DISKS"}
        /\ pc[q] = "lock_system"

\* C10: poisoning is permanent.  Once SYSTEM is poisoned it stays poisoned;
\* a request that panicked while it owned the SYSTEM guard leaves it poisoned;
\* every request that then passes lock() fails there, without a refresh and
\* without a 200 response; while SYSTEM is poisoned nobody owns its guard.
C10_PoisonIsPermanent ==
    /\ [][systemMutex.poisoned => systemMutex'.poisoned]_vars
    /\ [][\A r \in Requests :
              (systemMutex.poisoned /\ pc[r] = "lock_system" /\ pc'[r] # "lock_system") =>
                  (pc'[r] = "done" /\ response'[r] = "closed" /\ panicked'[r] = "poisoned")]_vars
    /\ [](\A r \in Requests :
              /\ (pc[r] = "done" /\ panicked[r] = "overflow") => systemMutex.poisoned
              /\ systemMutex.poisoned => "SYSTEM" \notin guards[r])

\* A request was turned away by the poisoned SYSTEM lock.
C10_Witness ==
    \E r \in Requests :
        systemMutex.poisoned /\ pc[r] = "done" /\ panicked[r] = "poisoned"

=============================================================================
